---- MODULE Spec2Model ----
(***************************************************************************)
(* Zapier error dashboard: the error_logs table (db.py) and the HTTP       *)
(* handlers and the error classifier that sit on it (main.py).             *)
(*                                                                         *)
(* A Python str is a sequence of one-character strings, so that lower()    *)
(* and the substring test `pattern in error_lower` are computed character  *)
(* by character.  Python's None is the 1-tuple <<"None">>, which no str    *)
(* equals because "None" is not a character.                               *)
(***************************************************************************)
EXTENDS Integers, Sequences, FiniteSets, TLC

\* ------------------------------------------------------------------ bounds
MaxId == 2          \* INSERTs that may commit in one behaviour
MaxTime == 1        \* last second the clock reaches (seconds 0..MaxTime)
MaxLimit == 2       \* largest explicit LIMIT passed to get_all_logs
MaxFrags == 2       \* fragments concatenated into a classifier input
NumProcs == 2       \* request handlers in flight at once

Procs == 1..NumProcs

\* --------------------------------------------------------------- str model
None == <<"None">>

Truthy(v) == v # None /\ v # <<>>

UPPERCASE == <<"A", "B", "C", "D", "E", "F", "G", "H", "I", "J", "K", "L", "M", "N", "O", "P", "Q", "R", "S", "T", "U", "V", "W", "X", "Y", "Z">>

LOWERCASE == <<"a", "b", "c", "d", "e", "f", "g", "h", "i", "j", "k", "l", "m", "n", "o", "p", "q", "r", "s", "t", "u", "v", "w", "x", "y", "z">>

\* str.lower() on one character
LowerChar(c) ==
  IF \E i \in 1..Len(UPPERCASE) : UPPERCASE[i] = c
  THEN LOWERCASE[CHOOSE i \in 1..Len(UPPERCASE) : UPPERCASE[i] = c]
  ELSE c

\* lower() left out: the message is scanned as received
lower_skipped(s) == s

\* str.lower()
lower(s) == [i \in 1..Len(s) |-> LowerChar(s[i])]

\* `pattern in s`
Contains(pattern, s) ==
  \E i \in 1..(Len(s) - Len(pattern) + 1) :
     SubSeq(s, i, i + Len(pattern) - 1) = pattern

\* -------------------------------------------------------------- classifier
ERROR_EXPLANATIONS ==
  << << <<"n", "o", "t", " ", "f", "o", "u", "n", "d">>,
        <<"R", "e", "s", "o", "u", "r", "c", "e", " ", "w", "a", "s", " ", "r", "e", "n", "a", "m", "e", "d", " ", "o", "r", " ", "d", "e", "l", "e", "t", "e", "d">> >>,
     << <<"m", "i", "s", "s", "i", "n", "g", " ", "r", "e", "q", "u", "i", "r", "e", "d", " ", "f", "i", "e", "l", "d">>,
        <<"C", "h", "e", "c", "k", " ", "i", "f", " ", "f", "i", "e", "l", "d", " ", "n", "a", "m", "e", "s", " ", "c", "h", "a", "n", "g", "e", "d">> >>,
     << <<"a", "u", "t", "h", " ", "e", "x", "p", "i", "r", "e", "d">>,
        <<"R", "e", "a", "u", "t", "h", "o", "r", "i", "z", "a", "t", "i", "o", "n", " ", "n", "e", "e", "d", "e", "d">> >>,
     << <<"r", "a", "t", "e", " ", "l", "i", "m", "i", "t">>,
        <<"A", "P", "I", " ", "r", "a", "t", "e", " ", "l", "i", "m", "i", "t", " ", "r", "e", "a", "c", "h", "e", "d">> >>,
     << <<"i", "n", "v", "a", "l", "i", "d", " ", "d", "a", "t", "a", " ", "t", "y", "p", "e">>,
        <<"C", "h", "e", "c", "k", " ", "f", "i", "e", "l", "d", " ", "m", "a", "p", "p", "i", "n", "g", "s">> >> >>

NO_EXPLANATION == <<"N", "o", " ", "s", "p", "e", "c", "i", "f", "i", "c", " ", "e", "x", "p", "l", "a", "n", "a", "t", "i", "o", "n", " ", "a", "v", "a", "i", "l", "a", "b", "l", "e">>

\* the for loop of explain_error, entered at table position i
RECURSIVE ExplainFrom(_, _)
ExplainFrom(error_lower, i) ==
  IF i > Len(ERROR_EXPLANATIONS) THEN NO_EXPLANATION
  ELSE IF Contains(ERROR_EXPLANATIONS[i][1], error_lower)
       THEN ERROR_EXPLANATIONS[i][2]
       ELSE ExplainFrom(error_lower, i + 1)

explain_error(error_msg) == ExplainFrom(lower(error_msg), 1)

\* classifier inputs: concatenations of at most MaxFrags fragments
Fragments ==
  { <<"n", "o", "t", " ", "f", "o", "u", "n", "d">>,
    <<"N", "o", "t", " ", "F", "o", "u", "n", "d">>,
    <<"n", "o", "t", " ", "f">>,
    <<"o", "u", "n", "d">>,
    <<"M", "i", "s", "s", "i", "n", "g", " ", "R", "e", "q", "u", "i", "r", "e", "d", " ", "F", "i", "e", "l", "d">>,
    <<"A", "U", "T", "H", " ", "E", "X", "P", "I", "R", "E", "D">>,
    <<"a", "u", "t", "h", " ", "e", "x", "p", "i", "r", "e", "d">>,
    <<"r", "a", "t", "e", " ", "l", "i", "m", "i", "t">>,
    <<"r", "a", "t", "e">>,
    <<" ", "l", "i", "m", "i", "t">>,
    <<"I", "n", "v", "a", "l", "i", "d", " ", "d", "a", "t", "a", " ", "t", "y", "p", "e">>,
    <<" ">>,
    <<"x">> }

RECURSIVE Concatenations(_)
Concatenations(n) ==
  IF n = 0 THEN {<<>>}
  ELSE LET shorter == Concatenations(n - 1)
       IN  shorter \cup {s \o f : s \in shorter, f \in Fragments}

ClassifierInputs == Concatenations(MaxFrags)

\* ------------------------------------------------------------------- store
VARIABLES
  error_logs,        \* rows of table error_logs
  sqlite_sequence,   \* AUTOINCREMENT's record of the largest rowid ever used
  now,               \* CURRENT_TIMESTAMP, in whole seconds
  pc,                \* per handler: "idle", or the INSERT it is about to run
  local,             \* per handler: zap_name, error_message, explanation
  response,          \* the response most recently sent (or value returned)
  inserted,          \* every row an INSERT has committed, as committed
  error_msg,         \* classifier under test: the argument
  explained          \* classifier under test: the value returned

vars == <<error_logs, sqlite_sequence, now, pc, local, response, inserted, error_msg, explained>>

DEFAULT_STATUS == <<"u", "n", "r", "e", "s", "o", "l", "v", "e", "d">>

valid_statuses ==
  << <<"u", "n", "r", "e", "s", "o", "l", "v", "e", "d">>,
     <<"r", "e", "s", "o", "l", "v", "e", "d">>,
     <<"d", "i", "s", "m", "i", "s", "s", "e", "d">> >>

DEFAULT_LIMIT == 1000

Range(s) == {s[i] : i \in 1..Len(s)}

Min(a, b) == IF a <= b THEN a ELSE b

MaxRowid(logs) == IF logs = {} THEN 0 ELSE CHOOSE m \in {r.id : r \in logs} : \A r \in logs : r.id <= m

\* rowid selection without AUTOINCREMENT: one more than the largest rowid in the table
NextRowidNoAutoincrement(logs, seq) == MaxRowid(logs) + 1

\* rowid selection of an INTEGER PRIMARY KEY AUTOINCREMENT column
NextRowid(logs, seq) == (IF seq >= MaxRowid(logs) THEN seq ELSE MaxRowid(logs)) + 1

\* UNIQUE that leaves the timestamp out
ViolatesUniqueNoTimestamp(logs, zap_name, error_message, timestamp) ==
  \E r \in logs : r.zap_name = zap_name /\ r.error_message = error_message

\* UNIQUE(zap_name, error_message, timestamp)
ViolatesUnique(logs, zap_name, error_message, timestamp) ==
  \E r \in logs : /\ r.zap_name = zap_name
                  /\ r.error_message = error_message
                  /\ r.timestamp = timestamp

\* zap_name TEXT NOT NULL, error_message TEXT NOT NULL
ViolatesNotNull(zap_name, error_message) == zap_name = None \/ error_message = None

\* insert_error_log: the table, the sequence and the value returned
insert_error_log(logs, seq, t, zap_name, error_message, explanation) ==
  IF ViolatesNotNull(zap_name, error_message) \/ ViolatesUnique(logs, zap_name, error_message, t)
  THEN [logs |-> logs, seq |-> seq, ret |-> -1]
  ELSE LET lastrowid == NextRowid(logs, seq)
           row == [id |-> lastrowid, zap_name |-> zap_name, error_message |-> error_message,
                   explanation |-> explanation, timestamp |-> t, status |-> DEFAULT_STATUS]
       IN  [logs |-> logs \cup {row}, seq |-> lastrowid, ret |-> lastrowid]

\* every order in which the rows of a set can be returned
Orders(rows) ==
  {s \in [1..Cardinality(rows) -> rows] : \A i, j \in 1..Cardinality(rows) : i # j => s[i] # s[j]}

\* ORDER BY timestamp DESC: rows of equal timestamp come in an order SQL leaves open
OrderByTimestampDesc(rows) ==
  {s \in Orders(rows) : \A i, j \in 1..Len(s) : i < j => s[i].timestamp >= s[j].timestamp}

\* get_all_logs: the results the query can produce (limit >= 0)
get_all_logs(logs, limit) ==
  {SubSeq(s, 1, Min(limit, Len(s))) : s \in OrderByTimestampDesc(logs)}

\* get_logs_by_status: the results the query can produce
get_logs_by_status(logs, status) ==
  OrderByTimestampDesc({r \in logs : r.status = status})

\* UPDATE ... WHERE id = ? that also rewrites the other rows
UpdateAllRows(logs, log_id, new_status) ==
  {[r EXCEPT !.status = new_status] : r \in logs}

\* UPDATE error_logs SET status = ? WHERE id = ?
UpdateWhereId(logs, log_id, new_status) ==
  {IF r.id = log_id THEN [r EXCEPT !.status = new_status] ELSE r : r \in logs}

\* update_log_status without the membership test on new_status
update_log_status_unvalidated(logs, log_id, new_status) ==
  [raised |-> FALSE,
   logs |-> UpdateWhereId(logs, log_id, new_status),
   ret |-> Cardinality({r \in logs : r.id = log_id}) > 0]

\* update_log_status returning `cursor.rowcount >= 0`
update_log_status_rowcount_ge0(logs, log_id, new_status) ==
  IF new_status \notin Range(valid_statuses)
  THEN [raised |-> TRUE, logs |-> logs, ret |-> FALSE]
  ELSE [raised |-> FALSE,
        logs |-> UpdateWhereId(logs, log_id, new_status),
        ret |-> Cardinality({r \in logs : r.id = log_id}) >= 0]

\* update_log_status: ValueError raised or not, the table and the value returned
update_log_status(logs, log_id, new_status) ==
  IF new_status \notin Range(valid_statuses)
  THEN [raised |-> TRUE, logs |-> logs, ret |-> FALSE]
  ELSE [raised |-> FALSE,
        logs |-> UpdateWhereId(logs, log_id, new_status),
        ret |-> Cardinality({r \in logs : r.id = log_id}) > 0]

\* DELETE that spares the newest row
DeleteAllButNewest(logs) == {r \in logs : r.id = MaxRowid(logs)}

\* DELETE FROM error_logs: the rows left
DeleteFrom(logs) == {}

\* clear_all_logs: the table and cursor.rowcount
clear_all_logs(logs) ==
  [logs |-> DeleteFrom(logs), ret |-> Cardinality(logs) - Cardinality(DeleteFrom(logs))]

\* ---------------------------------------------------------------- handlers
NoLocal == [zap_name |-> None, error_message |-> None, explanation |-> None]

NoResponse == [op |-> "none", status |-> 0, id |-> 0, count |-> 0, rows |-> <<>>]

Response(op, status) == [NoResponse EXCEPT !.op = op, !.status = status]

\* request inputs
ZapNames == {<<>>, <<"z">>}

ErrorMessages == {<<>>, <<"R", "a", "t", "e", " ", "L", "i", "m", "i", "t">>}

\* bodies of POST /api/errors that pass ErrorLogCreate
ErrorLogCreate ==
  { [zap_name |-> <<"z">>, error_message |-> <<"R", "a", "t", "e", " ", "L", "i", "m", "i", "t">>, explanation |-> None],
    [zap_name |-> <<"z">>, error_message |-> <<"R", "a", "t", "e", " ", "L", "i", "m", "i", "t">>, explanation |-> <<>>],
    [zap_name |-> <<>>, error_message |-> <<>>, explanation |-> <<"c">>] }

StatusInputs == Range(valid_statuses) \cup {<<"b", "o", "g", "u", "s">>}

LogIds == 1..(MaxId + 1)

Init ==
  /\ error_logs = {}
  /\ sqlite_sequence = 0
  /\ now = 0
  /\ pc = [p \in Procs |-> "idle"]
  /\ local = [p \in Procs |-> NoLocal]
  /\ response = NoResponse
  /\ inserted = {}
  /\ error_msg = <<>>
  /\ explained = None

\* the clock reaches the next second
Tick ==
  /\ now < MaxTime
  /\ now' = now + 1
  /\ UNCHANGED <<error_logs, sqlite_sequence, pc, local, response, inserted, error_msg, explained>>

\* `except Exception as e: raise HTTPException(status_code=500, ...)`:
\* the status the client sees when the try body raised HTTPException(raised_status)
except_Exception(raised_status) == 500

\* POST /api/zapier_payload up to the call of insert_error_log;
\* payload.get(k) is None when k is absent
receive_zapier_payload(p, payload) ==
  /\ pc[p] = "idle"
  /\ sqlite_sequence < MaxId
  /\ LET zap_name == payload.zap_name
         error_message == payload.error_message
     IN  IF ~Truthy(zap_name) \/ ~Truthy(error_message)
         THEN /\ response' = Response("zapier_payload", except_Exception(400))
              /\ UNCHANGED <<pc, local>>
         ELSE /\ pc' = [pc EXCEPT ![p] = "zapier_insert"]
              /\ local' = [local EXCEPT ![p] = [zap_name |-> zap_name,
                                                 error_message |-> error_message,
                                                 explanation |-> explain_error(error_message)]]
              /\ UNCHANGED response
  /\ UNCHANGED <<error_logs, sqlite_sequence, now, inserted, error_msg, explained>>

\* the INSERT of a handler and the response built from its return value
InsertAndRespond(p, op) ==
  LET r == insert_error_log(error_logs, sqlite_sequence, now,
                            local[p].zap_name, local[p].error_message, local[p].explanation)
  IN  /\ r.ret <= MaxId
      /\ error_logs' = r.logs
      /\ sqlite_sequence' = r.seq
      /\ inserted' = inserted \cup (r.logs \ error_logs)
      /\ response' = IF r.ret = -1 THEN Response(op, 409)
                     ELSE [Response(op, 201) EXCEPT !.id = r.ret]
      /\ pc' = [pc EXCEPT ![p] = "idle"]
      /\ local' = [local EXCEPT ![p] = NoLocal]
      /\ UNCHANGED <<now, error_msg, explained>>

\* POST /api/zapier_payload from the call of insert_error_log on
receive_zapier_payload_insert(p) ==
  /\ pc[p] = "zapier_insert"
  /\ InsertAndRespond(p, "zapier_payload")

\* POST /api/errors up to the call of insert_error_log; the body has passed
\* ErrorLogCreate, so zap_name and error_message are str
create_error_log(p, error) ==
  /\ pc[p] = "idle"
  /\ sqlite_sequence < MaxId
  /\ pc' = [pc EXCEPT ![p] = "errors_insert"]
  /\ local' = [local EXCEPT ![p] =
                 [zap_name |-> error.zap_name,
                  error_message |-> error.error_message,
                  explanation |-> IF Truthy(error.explanation) THEN error.explanation
                                  ELSE explain_error(error.error_message)]]
  /\ UNCHANGED <<error_logs, sqlite_sequence, now, response, inserted, error_msg, explained>>

\* POST /api/errors from the call of insert_error_log on
create_error_log_insert(p) ==
  /\ pc[p] = "errors_insert"
  /\ InsertAndRespond(p, "errors")

\* GET /api/logs?status=
get_logs(p, status) ==
  /\ pc[p] = "idle"
  /\ \E rows \in (IF Truthy(status) THEN get_logs_by_status(error_logs, status)
                  ELSE get_all_logs(error_logs, DEFAULT_LIMIT)) :
        response' = [Response("get_logs", 200) EXCEPT !.rows = rows]
  /\ UNCHANGED <<error_logs, sqlite_sequence, now, pc, local, inserted, error_msg, explained>>

\* a direct call get_all_logs(limit)
call_get_all_logs(p, limit) ==
  /\ pc[p] = "idle"
  /\ \E rows \in get_all_logs(error_logs, limit) :
        response' = [Response("get_all_logs", 200) EXCEPT !.rows = rows]
  /\ UNCHANGED <<error_logs, sqlite_sequence, now, pc, local, inserted, error_msg, explained>>

\* PATCH /api/logs/{log_id}
update_log(p, log_id, status) ==
  /\ pc[p] = "idle"
  /\ LET r == update_log_status(error_logs, log_id, status)
     IN  /\ error_logs' = r.logs
         /\ response' = Response("update_log",
                                 IF r.raised THEN 400 ELSE IF ~r.ret THEN 404 ELSE 200)
  /\ UNCHANGED <<sqlite_sequence, now, pc, local, inserted, error_msg, explained>>

\* DELETE /api/logs
delete_all_logs(p) ==
  /\ pc[p] = "idle"
  /\ LET r == clear_all_logs(error_logs)
     IN  /\ error_logs' = r.logs
         /\ response' = [Response("delete_all_logs", 200) EXCEPT !.count = r.ret]
  /\ UNCHANGED <<sqlite_sequence, now, pc, local, inserted, error_msg, explained>>

\* one worker: uvicorn runs the bodies of these `async def` handlers, which
\* never await, one after the other
Worker == 1

Next ==
  \/ Tick
  \/ \E z \in ZapNames \cup {None}, m \in ErrorMessages \cup {None} :
        receive_zapier_payload(Worker, [zap_name |-> z, error_message |-> m])
  \/ receive_zapier_payload_insert(Worker)
  \/ \E error \in ErrorLogCreate : create_error_log(Worker, error)
  \/ create_error_log_insert(Worker)
  \/ \E status \in StatusInputs \cup {None, <<>>} : get_logs(Worker, status)
  \/ \E limit \in 0..MaxLimit : call_get_all_logs(Worker, limit)
  \/ \E log_id \in LogIds, status \in StatusInputs : update_log(Worker, log_id, status)
  \/ delete_all_logs(Worker)

Spec == Init /\ [][Next]_vars

\* several workers on one database file: the ingestion handlers of different
\* workers interleave at their INSERT statements, and with clear-all
NextWorkers ==
  \/ Tick
  \/ \E p \in Procs, z \in ZapNames \cup {None}, m \in ErrorMessages \cup {None} :
        receive_zapier_payload(p, [zap_name |-> z, error_message |-> m])
  \/ \E p \in Procs : receive_zapier_payload_insert(p)
  \/ \E p \in Procs, error \in ErrorLogCreate : create_error_log(p, error)
  \/ \E p \in Procs : create_error_log_insert(p)
  \/ \E p \in Procs : delete_all_logs(p)

SpecWorkers == Init /\ [][NextWorkers]_vars

\* --------------------------------------------------- classifier under test
InitExplain ==
  /\ error_logs = {}
  /\ sqlite_sequence = 0
  /\ now = 0
  /\ pc = [p \in Procs |-> "idle"]
  /\ local = [p \in Procs |-> NoLocal]
  /\ response = NoResponse
  /\ inserted = {}
  /\ error_msg \in ClassifierInputs
  /\ explained = None

\* a call explain_error(error_msg)
call_explain_error ==
  /\ explained = None
  /\ explained' = explain_error(error_msg)
  /\ UNCHANGED <<error_logs, sqlite_sequence, now, pc, local, response, inserted, error_msg>>

NextExplain == call_explain_error

SpecExplain == InitExplain /\ [][NextExplain]_vars

\* ------------------------------------------------------------------ claims

\* C1 (as stated): of the insert calls that carry the same (zap_name,
\* error_message) and run in the same second exactly one succeeds, and no two
\* stored records share (zap_name, error_message, timestamp).
C1_ExactlyOneSucceeds ==
  /\ \A a, b \in inserted :
        (a.zap_name = b.zap_name /\ a.error_message = b.error_message /\ a.timestamp = b.timestamp)
           => a.id = b.id
  /\ \A a, b \in error_logs :
        (a.zap_name = b.zap_name /\ a.error_message = b.error_message /\ a.timestamp = b.timestamp)
           => a = b

\* C1 (amended): an insert through either endpoint succeeds (201, one new
\* record with the current second) exactly when no record with its
\* (zap_name, error_message) and the current second is stored at the moment of
\* the INSERT; otherwise it answers 409 and stores nothing; no two stored
\* records ever share (zap_name, error_message, timestamp).
C1_DedupAgainstStored ==
  [][ /\ \A a, b \in error_logs' :
            (a.zap_name = b.zap_name /\ a.error_message = b.error_message /\ a.timestamp = b.timestamp)
               => a = b
      /\ \A p \in Procs :
            (receive_zapier_payload_insert(p) \/ create_error_log_insert(p)) =>
               LET dup == \E r \in error_logs : /\ r.zap_name = local[p].zap_name
                                                /\ r.error_message = local[p].error_message
                                                /\ r.timestamp = now
               IN  IF dup
                   THEN response'.status = 409 /\ error_logs' = error_logs
                   ELSE /\ response'.status = 201
                        /\ \E r \in error_logs' :
                              /\ r \notin error_logs
                              /\ error_logs' = error_logs \cup {r}
                              /\ r.id = response'.id
                              /\ r.zap_name = local[p].zap_name
                              /\ r.error_message = local[p].error_message
                              /\ r.timestamp = now ]_vars

\* C1 witness: a duplicate was just answered 409 after a clear-all in the same
\* second let the same pair in twice.
C1_Witness ==
  /\ response.status = 409
  /\ \E r \in error_logs : r.timestamp = now
  /\ \E i \in inserted : i \notin error_logs /\ i.timestamp = now

\* C2 (as stated): POST /api/zapier_payload with zap_name or error_message
\* missing or empty answers 400 and stores no record.
C2_MissingFieldsAnswer400 ==
  [][ \A p \in Procs, z \in ZapNames \cup {None}, m \in ErrorMessages \cup {None} :
         (receive_zapier_payload(p, [zap_name |-> z, error_message |-> m])
            /\ (~Truthy(z) \/ ~Truthy(m)))
         => (response'.status = 400 /\ error_logs' = error_logs) ]_vars

\* C3: PATCH /api/logs/{id} with a status outside {unresolved, resolved,
\* dismissed} answers 400 for every id, stored or not, and leaves every
\* stored record unchanged.
C3_InvalidStatusRejected ==
  [][ response'.op = "update_log" =>
         \A log_id \in LogIds, status \in StatusInputs \ Range(valid_statuses) :
            update_log(Worker, log_id, status)
               => (response'.status = 400 /\ error_logs' = error_logs) ]_vars

\* C3 witness: an update was answered 400 while records are stored.
C3_Witness ==
  /\ response.op = "update_log"
  /\ response.status = 400
  /\ error_logs # {}

\* C4: an update with a valid status succeeds exactly when a record with the
\* id is stored; on success the next listing shows that record with the new
\* status, whatever it was before; otherwise the answer is 404 and the store
\* is unchanged.
C4_UpdateStatus ==
  [][ response'.op = "update_log" =>
         \A log_id \in LogIds, status \in Range(valid_statuses) :
            update_log(Worker, log_id, status) =>
               /\ (response'.status = 200) <=> (\E r \in error_logs : r.id = log_id)
               /\ response'.status # 200 => (response'.status = 404 /\ error_logs' = error_logs)
               /\ response'.status = 200 =>
                     \A rows \in get_all_logs(error_logs', DEFAULT_LIMIT) :
                        \E i \in 1..Len(rows) : rows[i].id = log_id /\ rows[i].status = status ]_vars

\* C4 witness: an update succeeded and a stored record has left the default status.
C4_Witness ==
  /\ response.op = "update_log"
  /\ response.status = 200
  /\ \E r \in error_logs : r.status # DEFAULT_STATUS

\* C5: a stored record keeps the id, zap_name, error_message, explanation and
\* timestamp it was inserted with; a status changes only through an update of
\* that id, which touches no other record; records leave the store only
\* through clear-all.
C5_OnlyStatusChanges ==
  [][ /\ \A r \in error_logs' :
            \E i \in inserted' : /\ i.id = r.id
                                 /\ i.zap_name = r.zap_name
                                 /\ i.error_message = r.error_message
                                 /\ i.explanation = r.explanation
                                 /\ i.timestamp = r.timestamp
      /\ \A r \in error_logs :
            (\A q \in error_logs' : q.id # r.id) => (delete_all_logs(Worker) /\ error_logs' = {})
      /\ response'.op = "update_log" =>
            \A log_id \in LogIds, status \in StatusInputs :
               update_log(Worker, log_id, status) =>
                  \A r \in error_logs : r.id # log_id => r \in error_logs'
      /\ \A r \in error_logs, q \in error_logs' :
            (r.id = q.id /\ r.status # q.status) => update_log(Worker, r.id, q.status) ]_vars

\* C5 witness: two records are stored, one updated and one still untouched.
C5_Witness ==
  /\ response.op = "update_log"
  /\ \E r, q \in error_logs : r.status # DEFAULT_STATUS /\ q.status = DEFAULT_STATUS

\* C6 (as stated): every stored record has a non-empty zap_name and a
\* non-empty error_message.
C6_NonEmptyFields ==
  \A r \in error_logs : r.zap_name # <<>> /\ r.error_message # <<>>

\* C7 (as stated): get_all_logs(limit) returns min(limit, stored) records,
\* the later inserted first, and leaves out no record inserted later than one
\* it returns, also among records of one second.
C7_NewestFirst ==
  [][ response'.op = "get_all_logs" =>
         \A limit \in 0..MaxLimit :
            call_get_all_logs(Worker, limit) =>
               LET rows == response'.rows
               IN  /\ Len(rows) = Min(limit, Cardinality(error_logs))
                   /\ \A i, j \in 1..Len(rows) : i < j => rows[i].id > rows[j].id
                   /\ \A r \in error_logs :
                         (\A i \in 1..Len(rows) : rows[i] # r) =>
                            \A i \in 1..Len(rows) : r.id < rows[i].id ]_vars

\* C8: a successful insert gets an id greater than every id an earlier insert
\* got, records removed by clear-all included.
C8_IdsNeverReused ==
  [][ \A r \in inserted' \ inserted : \A i \in inserted : r.id > i.id ]_vars

\* C8 witness: a record inserted after a clear-all is stored next to the
\* history of a removed one.
C8_Witness ==
  \E i \in inserted, r \in error_logs :
     /\ \A q \in error_logs : q.id # i.id
     /\ r.id > i.id

\* C9: clear-all returns the number of records stored when it ran and leaves
\* the store empty; the store stays empty until an insert succeeds, and every
\* listing of the empty store is empty.
C9_ClearAll ==
  [][ /\ (response'.op = "delete_all_logs" /\ delete_all_logs(Worker)) =>
            (error_logs' = {} /\ response'.count = Cardinality(error_logs))
      /\ (error_logs = {} /\ error_logs' # {}) =>
            (receive_zapier_payload_insert(Worker) \/ create_error_log_insert(Worker))
      /\ (error_logs = {} /\ response'.op = "get_logs") =>
            \A status \in StatusInputs \cup {None, <<>>} :
               get_logs(Worker, status) => response'.rows = <<>>
      /\ (error_logs = {} /\ response'.op = "get_all_logs") =>
            \A limit \in 0..MaxLimit :
               call_get_all_logs(Worker, limit) => response'.rows = <<>> ]_vars

\* C9 witness: a clear-all has just removed at least one record.
C9_Witness ==
  /\ response.op = "delete_all_logs"
  /\ response.count >= 1
  /\ error_logs = {}

\* C10: explain_error returns the explanation of the first table entry whose
\* pattern occurs in the message up to letter case, and the fallback exactly
\* when no pattern occurs.
C10_FirstMatchWins ==
  explained # None =>
     LET Occurs(i) ==
           LET pattern == ERROR_EXPLANATIONS[i][1]
           IN  \E k \in 0..(Len(error_msg) - Len(pattern)) :
                  \A j \in 1..Len(pattern) : LowerChar(error_msg[k + j]) = pattern[j]
         hits == {i \in 1..Len(ERROR_EXPLANATIONS) : Occurs(i)}
     IN  /\ hits # {} =>
               \E i \in hits : (\A h \in hits : i <= h) /\ explained = ERROR_EXPLANATIONS[i][2]
         /\ hits = {} <=> explained = NO_EXPLANATION

\* C10 witness: a message holding the 4th pattern and, in capitals, the 1st
\* was explained by the 1st entry.
C10_Witness ==
  /\ explained = ERROR_EXPLANATIONS[1][2]
  /\ Contains(ERROR_EXPLANATIONS[4][1], error_msg)
  /\ ~Contains(ERROR_EXPLANATIONS[1][1], error_msg)

====
